---- MODULE Spec2Model ----
(***************************************************************************)
(* MapView (src/src/mapView.ts): the versioned map state, the asynchronous *)
(* updateMapToState protocol and the marker reconciliation.                *)
(*                                                                         *)
(* A JavaScript string is a sequence of one-character strings, a string[]  *)
(* is a sequence of such sequences.  MapState objects live in a heap       *)
(* (objs); this.state is a reference into it (cur), so that the aliasing   *)
(* of this.state, this.defaultState and the object handed to               *)
(* updateMapToState is what it is in the code.                             *)
(***************************************************************************)
EXTENDS Integers, Sequences, FiniteSets, TLC

VARIABLES
    opened,     \* onOpen has run: the controls and the map exist
    settings,   \* this.settings (the fields the view reads and writes)
    objs,       \* heap of MapState objects; objs[1] is this.defaultState
    cur,        \* this.state: index into objs
    reqs,       \* the calls of updateMapToState, in issue order
    markers,    \* this.display.markers: id -> entry with its mapMarker handle
    surface,    \* marker handles present on this.display.map
    tagsBox,    \* value of this.display.tagsBox
    viewport,   \* center and zoom of this.display.map
    events,     \* number of map and button events so far
    bench       \* a function called on its own: its arguments and results

vars == <<opened, settings, objs, cur, reqs, markers, surface, tagsBox, viewport,
          events, bench>>

-----------------------------------------------------------------------------
(* Bounds and inputs *)

\* number of inputs in one behaviour: calls of updateMapToState and the map
\* and button events that call nothing (zoomend, moveend, Fit, Set as Default)
MaxInputs == 4

\* an optional value: absent, or present with a value
None == <<>>
Some(x) == <<x>>

\* consts.DEFAULT_ZOOM, consts.DEFAULT_CENTER, consts.DEFAULT_TAGS
DEFAULT_ZOOM == 1
DEFAULT_CENTER == {"defaultCenter"}
DEFAULT_TAGS == <<>>

\* the map is constructed at this center and zoom
MAP_INIT_CENTER == {"mapInitCenter"}
MAP_INIT_ZOOM == 13

\* settings.zoomOnGoFromNote
ZoomOnGoFromNote == 15

\* the version setState forces on a restored state
RESTORE_VERSION == 100

\* the settings the view is built with: no default view saved yet (0, {} and
\* None: not set), auto zoom on
InitialSettings ==
    { [defaultZoom |-> 0, defaultMapCenter |-> {}, defaultTags |-> None,
       autoZoom |-> TRUE, zoomOnGoFromNote |-> ZoomOnGoFromNote] }

\* texts typed into the tag box
TagTexts == { <<"a">>, <<",", "b">> }

\* locations zoomToLocation is called with
Locations == {{"loc1"}}

\* states the host restores: center, zoom, tags (setState overwrites version);
\* no file of the corpus has the tag of this one
RestoredStates ==
    { [mapZoom |-> 9, mapCenter |-> {"restored"}, tags |-> << <<"c">> >>, version |-> 0] }

\* zoom levels and centers the user moves the map to
UserZooms == {7}
UserCenters == {{"panned"}}

-----------------------------------------------------------------------------
(* The corpus: app.vault.getFiles() and app.metadataCache *)

Files == <<"D1", "D2", "D3">>

\* fileCache.tags of a file (None: the file has no tags)
FileCacheTags(f) ==
    CASE f = "D1" -> Some(<< <<"a">> >>)
      [] f = "D2" -> Some(<< <<"b">> >>)
      [] OTHER -> None

\* the markers buildMarkers makes of one file: D3 holds the same location twice
FileMarkers(f) ==
    CASE f = "D1" -> << [id |-> "m1", location |-> {"p1"}] >>
      [] f = "D2" -> << [id |-> "m2", location |-> {"p2"}] >>
      [] OTHER -> << [id |-> "m3", location |-> {"p3"}], [id |-> "m3", location |-> {"p3"}] >>

RECURSIVE buildMarkers(_)
buildMarkers(files) ==
    IF files = <<>> THEN <<>>
    ELSE FileMarkers(Head(files)) \o buildMarkers(Tail(files))

-----------------------------------------------------------------------------
(* Pure helpers *)

\* zoom || fallback, center || fallback, tags || fallback
OrZoom(z, fallback) == IF z = 0 THEN fallback ELSE z
OrCenter(c, fallback) == IF c = {} THEN fallback ELSE c
OrTags(t, fallback) == IF t = None THEN fallback ELSE t[1]

\* s.split(',')
RECURSIVE Split(_)
Split(s) ==
    IF s = <<>> THEN << <<>> >>
    ELSE LET rest == Split(Tail(s)) IN
         IF Head(s) = "," THEN << <<>> >> \o rest
         ELSE << <<Head(s)>> \o Head(rest) >> \o Tail(rest)

\* ts.filter(t => t.length > 0)
NonEmpty(ts) == SelectSeq(ts, LAMBDA t : Len(t) > 0)

\* ts.join(',')
RECURSIVE Join(_)
Join(ts) ==
    IF ts = <<>> THEN <<>>
    ELSE IF Len(ts) = 1 THEN ts[1]
    ELSE ts[1] \o <<",">> \o Join(Tail(ts))

\* tags.indexOf(tag) > -1
HasTag(tags, tag) == \E j \in DOMAIN tags : tags[j] = tag

\* a match that asks a file for every tag of the filter
FileMatches_EveryTag(f, tags) ==
    IF Len(tags) > 0
    THEN /\ FileCacheTags(f) # None
         /\ \A j \in DOMAIN tags :
               \E i \in DOMAIN FileCacheTags(f)[1] : FileCacheTags(f)[1][i] = tags[j]
    ELSE TRUE

FileMatches(f, tags) ==
    IF Len(tags) > 0
    THEN /\ FileCacheTags(f) # None
         /\ \E i \in DOMAIN FileCacheTags(f)[1] : HasTag(tags, FileCacheTags(f)[1][i])
    ELSE TRUE

getFileListByQuery(tags) == SelectSeq(Files, LAMBDA f : FileMatches(f, tags))

\* faults of the version check: never old; old when equal too
IsOld_Never(stateVersion, committedVersion) == FALSE
IsOld_Flipped(stateVersion, committedVersion) == stateVersion > committedVersion
IsOld_OrEqual(stateVersion, committedVersion) == stateVersion <= committedVersion

\* the version check of updateMapToState
IsOld(stateVersion, committedVersion) == stateVersion < committedVersion

-----------------------------------------------------------------------------
(* updateMapMarkers *)

EmptyMap == [k \in {} |-> 0]

MapSet(m, k, v) == [x \in (DOMAIN m) \cup {k} |-> IF x = k THEN v ELSE m[x]]
MapDelete(m, k) == [x \in (DOMAIN m) \ {k} |-> m[x]]

\* the for loop over newMarkers; st.old is this.display.markers as the loop
\* deletes from it, st.new is newMarkersMap; the handle made for the i-th
\* marker of request r is <<r, i>>
RECURSIVE MarkerLoop(_, _, _, _)
MarkerLoop(newMarkers, i, r, st) ==
    IF i > Len(newMarkers) THEN st
    ELSE LET marker == newMarkers[i]
             body ==
                IF marker.id \in DOMAIN st.old
                THEN [old |-> MapDelete(st.old, marker.id),
                      new |-> MapSet(st.new, marker.id, st.old[marker.id]),
                      surface |-> st.surface]
                ELSE [old |-> st.old,
                      new |-> MapSet(st.new, marker.id,
                                 [id |-> marker.id, location |-> marker.location,
                                  mapMarker |-> <<r, i>>]),
                      surface |-> st.surface \cup {<<r, i>>}]
         IN \* the next round starts from the value the body has left
            CHOOSE result \in { MarkerLoop(newMarkers, i + 1, r, next) :
                                   next \in {body} } : TRUE

\* the handles the second loop calls removeFrom on, each with the number of
\* its calls
RemoveCalls(old) ==
    [h \in { old[k].mapMarker : k \in DOMAIN old } |->
        Cardinality({ k \in DOMAIN old : old[k].mapMarker = h })]

\* updateMapMarkers that forgets a marker of the fresh list unless it was
\* drawn before
updateMapMarkers_DropNew(drawn, onMap, newMarkers, r) ==
    LET st == MarkerLoop(newMarkers, 1, r,
                         [old |-> drawn, new |-> EmptyMap, surface |-> onMap])
        kept == DOMAIN st.new \cap DOMAIN drawn
    IN [markers |-> [k \in kept |-> st.new[k]],
        surface |-> st.surface \ { st.old[k].mapMarker : k \in DOMAIN st.old },
        removed |-> RemoveCalls(st.old)]

\* updateMapMarkers that leaves the markers no longer wanted on the map
updateMapMarkers_NoRemove(drawn, onMap, newMarkers, r) ==
    LET st == MarkerLoop(newMarkers, 1, r,
                         [old |-> drawn, new |-> EmptyMap, surface |-> onMap])
    IN [markers |-> st.new,
        surface |-> st.surface,
        removed |-> RemoveCalls(EmptyMap)]

updateMapMarkers(drawn, onMap, newMarkers, r) ==
    LET st == MarkerLoop(newMarkers, 1, r,
                         [old |-> drawn, new |-> EmptyMap, surface |-> onMap])
    IN [markers |-> st.new,
        surface |-> st.surface \ { st.old[k].mapMarker : k \in DOMAIN st.old },
        removed |-> RemoveCalls(st.old)]

\* map.fitBounds(latLngBounds(locations)): the view that bounds the locations
\* (a center is the set of points it is the middle of)
FitBounds(locations) ==
    [center |-> locations, zoom |-> 20 - Cardinality(locations)]

\* autoFitMapToMarkers on a map showing view vp
autoFitMapToMarkers(drawn, vp) ==
    IF Cardinality(DOMAIN drawn) > 0
    THEN FitBounds(UNION { drawn[k].location : k \in DOMAIN drawn })
    ELSE vp

-----------------------------------------------------------------------------
(* The view *)

\* another event happens: the calls in flight no longer hold what the
\* committed state and the drawn markers were when they were issued
Touch(rs) == [i \in DOMAIN rs |-> [rs[i] EXCEPT !.pre = None]]

\* the committed state and drawn markers as an event handler finds them
Snapshot == [state |-> objs[cur], markers |-> markers]

\* updateMapToState(heap[o], autoFit) up to its await: the query runs now
Call(kind, o, autoFit, heap) ==
    Append(Touch(reqs),
           [kind |-> kind, obj |-> o, autoFit |-> autoFit,
            files |-> getFileListByQuery(heap[o].tags),
            status |-> "pending", pre |-> Some(Snapshot)])

\* a call that is aborted, with no outcome, once its candidate is found old
Finish_Abort(rs, i, outcome) ==
    IF outcome = "discarded" THEN [rs EXCEPT ![i].status = "aborted"]
    ELSE [rs EXCEPT ![i].status = outcome, ![i].files = <<>>,
                    ![i].autoFit = FALSE, ![i].pre = None]

\* call i has ended: what it held is dropped, its outcome is kept
Finish(rs, i, outcome) ==
    [rs EXCEPT ![i].status = outcome, ![i].files = <<>>, ![i].autoFit = FALSE,
               ![i].pre = None]

\* the bound on a behaviour's inputs
CanInput == Len(reqs) + events < MaxInputs

DefaultState(version) ==
    [mapZoom |-> OrZoom(settings.defaultZoom, DEFAULT_ZOOM),
     mapCenter |-> OrCenter(settings.defaultMapCenter, DEFAULT_CENTER),
     tags |-> OrTags(settings.defaultTags, DEFAULT_TAGS),
     version |-> version]

Init ==
    /\ opened = FALSE
    /\ settings \in InitialSettings
    /\ objs = << DefaultState(0) >>
    /\ cur = 1
    /\ reqs = <<>>
    /\ markers = EmptyMap
    /\ surface = {}
    /\ tagsBox = <<>>
    /\ viewport = [center |-> {}, zoom |-> 0]
    /\ events = 0
    /\ bench = None

\* onOpen, createMap and the whenReady callback (the map is built with a
\* center and a zoom, so it is ready at once)
OnOpen ==
    /\ ~opened
    /\ opened' = TRUE
    /\ tagsBox' = <<>>
    /\ viewport' = [center |-> MAP_INIT_CENTER, zoom |-> MAP_INIT_ZOOM]
    /\ reqs' = Call("initial", 1, settings.defaultZoom = 0, objs)
    /\ UNCHANGED <<settings, objs, cur, markers, surface, events, bench>>

\* the tagsBox.onChange handler, the box holding text (typed, or set by the
\* quick-add dropdown, which then calls onChanged)
TagsBoxOnChange(text) ==
    /\ opened
    /\ CanInput
    /\ tagsBox' = text
    /\ objs' = [objs EXCEPT ![cur].tags = NonEmpty(Split(text))]
    /\ reqs' = Call("tags", cur, settings.autoZoom, objs')
    /\ UNCHANGED <<opened, settings, cur, markers, surface, viewport, events,
                   bench>>

zoomToLocation(location) ==
    /\ opened
    /\ CanInput
    /\ objs' = Append(objs, [mapCenter |-> location,
                             mapZoom |-> settings.zoomOnGoFromNote,
                             tags |-> objs[cur].tags,
                             version |-> objs[cur].version + 1])
    /\ reqs' = Call("zoom", Len(objs'), FALSE, objs')
    /\ UNCHANGED <<opened, settings, cur, markers, surface, tagsBox, viewport,
                   events, bench>>

\* the Reset button
ResetOnClick ==
    /\ opened
    /\ CanInput
    /\ objs' = Append(objs, DefaultState(objs[cur].version + 1))
    /\ reqs' = Call("reset", Len(objs'), FALSE, objs')
    /\ UNCHANGED <<opened, settings, cur, markers, surface, tagsBox, viewport,
                   events, bench>>

\* setState with a state of the host (a null state does nothing); the host
\* hands over an object of its own, which no other reference of the view
\* reaches
setState(state) ==
    /\ opened
    /\ CanInput
    /\ objs' = Append(objs, [state EXCEPT !.version = RESTORE_VERSION])
    /\ reqs' = Call("restore", Len(objs'), FALSE, objs')
    /\ UNCHANGED <<opened, settings, cur, markers, surface, tagsBox, viewport,
                   events, bench>>

\* buildMarkers resolves for call i: the rest of updateMapToState
Resolve(i) ==
    /\ reqs[i].status = "pending"
    /\ LET state == objs[reqs[i].obj]
           newMarkers == buildMarkers(reqs[i].files)
           drawn == updateMapMarkers(markers, surface, newMarkers, i)
           view == [center |-> state.mapCenter, zoom |-> state.mapZoom]
       IN IF IsOld(state.version, objs[cur].version)
          THEN /\ reqs' = Finish(reqs, i, "discarded")
               /\ UNCHANGED <<cur, markers, surface, tagsBox, viewport>>
          ELSE /\ reqs' = Finish(Touch(reqs), i, "committed")
               /\ cur' = reqs[i].obj
               /\ markers' = drawn.markers
               /\ surface' = drawn.surface
               /\ tagsBox' = Join(NonEmpty(state.tags))
               /\ viewport' = IF reqs[i].autoFit
                              THEN autoFitMapToMarkers(drawn.markers, view)
                              ELSE view
    /\ UNCHANGED <<opened, settings, objs, events, bench>>

\* buildMarkers rejects for call i: updateMapToState throws at its await
Reject(i) ==
    /\ reqs[i].status = "pending"
    /\ reqs' = Finish(reqs, i, "failed")
    /\ UNCHANGED <<opened, settings, objs, cur, markers, surface, tagsBox,
                   viewport, events, bench>>

\* the zoomend handler, the map's zoom being zoom
ZoomEnd(zoom) ==
    /\ opened
    /\ CanInput
    /\ events' = events + 1
    /\ viewport' = [viewport EXCEPT !.zoom = zoom]
    /\ objs' = [objs EXCEPT ![cur].mapZoom = zoom]
    /\ reqs' = Touch(reqs)
    /\ UNCHANGED <<opened, settings, cur, markers, surface, tagsBox, bench>>

\* the moveend handler, the map's center being center
MoveEnd(center) ==
    /\ opened
    /\ CanInput
    /\ events' = events + 1
    /\ viewport' = [viewport EXCEPT !.center = center]
    /\ objs' = [objs EXCEPT ![cur].mapCenter = center]
    /\ reqs' = Touch(reqs)
    /\ UNCHANGED <<opened, settings, cur, markers, surface, tagsBox, bench>>

\* the Fit button
FitOnClick ==
    /\ opened
    /\ CanInput
    /\ events' = events + 1
    /\ viewport' = autoFitMapToMarkers(markers, viewport)
    /\ UNCHANGED <<opened, settings, objs, cur, reqs, markers, surface,
                   tagsBox, bench>>

\* the Set as Default button
SetAsDefaultOnClick ==
    /\ opened
    /\ CanInput
    /\ events' = events + 1
    /\ settings' = [settings EXCEPT !.defaultZoom = objs[cur].mapZoom,
                                    !.defaultMapCenter = objs[cur].mapCenter,
                                    !.defaultTags = Some(objs[cur].tags)]
    /\ UNCHANGED <<opened, objs, cur, reqs, markers, surface, tagsBox,
                   viewport, bench>>

Next ==
    \/ OnOpen
    \/ \E text \in TagTexts : TagsBoxOnChange(text)
    \/ \E location \in Locations : zoomToLocation(location)
    \/ ResetOnClick
    \/ \E state \in RestoredStates : setState(state)
    \/ \E i \in DOMAIN reqs : Resolve(i)
    \/ \E i \in DOMAIN reqs : Reject(i)
    \/ \E zoom \in UserZooms \cup {viewport.zoom} : ZoomEnd(zoom)
    \/ \E center \in UserCenters \cup {viewport.center} : MoveEnd(center)
    \/ FitOnClick
    \/ SetAsDefaultOnClick

Spec == Init /\ [][Next]_vars

\* the promise of buildMarkers settles for call i
Settle(i) == i \in DOMAIN reqs /\ (Reject(i) \/ Resolve(i))

\* the view with a Marker Builder that settles every call: a promise that
\* is settled has its continuation run by the event loop
SpecFair == Spec /\ \A i \in 1..MaxInputs : WF_vars(Settle(i))

-----------------------------------------------------------------------------
(* updateMapMarkers called on its own: any drawn map, any fresh list *)

MaxCalls == 2      \* calls of updateMapMarkers in a row
MaxFresh == 2      \* markers in a fresh list

\* the marker descriptors a fresh list is made of: two ids, each at either of
\* two coordinates
BenchMarkers == [id : {"A", "B"}, location : {{"p"}, {"q"}}]

\* fresh lists, the ones repeating an id among them
FreshLists == UNION { [1..n -> BenchMarkers] : n \in 0..MaxFresh }

\* display.markers with the markers of ids drawn at coordinate p; their
\* handles are <<0, 1>> (A) and <<0, 2>> (B)
DrawnMap(ids) ==
    [k \in ids |-> [id |-> k, location |-> {"p"},
                    mapMarker |-> <<0, IF k = "A" THEN 1 ELSE 2>>]]

Handles(drawn) == { drawn[k].mapMarker : k \in DOMAIN drawn }

\* a view showing any drawn map, each handle of it on the map
InitMarkers ==
    /\ opened = TRUE
    /\ settings \in InitialSettings
    /\ objs = << DefaultState(0) >>
    /\ cur = 1
    /\ reqs = <<>>
    /\ \E ids \in SUBSET {"A", "B"} : markers = DrawnMap(ids)
    /\ surface = Handles(markers)
    /\ tagsBox = <<>>
    /\ viewport = [center |-> MAP_INIT_CENTER, zoom |-> MAP_INIT_ZOOM]
    /\ events = 0
    /\ bench = [calls |-> 0, newMarkers |-> <<>>, removed |-> RemoveCalls(EmptyMap)]

\* this.updateMapMarkers(newMarkers), line 233 alone
UpdateMarkers(newMarkers) ==
    /\ bench.calls < MaxCalls
    /\ LET drawn == updateMapMarkers(markers, surface, newMarkers, bench.calls + 1)
       IN /\ markers' = drawn.markers
          /\ surface' = drawn.surface
          /\ bench' = [calls |-> bench.calls + 1, newMarkers |-> newMarkers,
                       removed |-> drawn.removed]
    /\ UNCHANGED <<opened, settings, objs, cur, reqs, tagsBox, viewport, events>>

NextMarkers == \E newMarkers \in FreshLists : UpdateMarkers(newMarkers)

SpecMarkers == InitMarkers /\ [][NextMarkers]_vars

-----------------------------------------------------------------------------
(* getFileListByQuery called on its own: any tag filter *)

MaxFilter == 3     \* tags in a filter
MaxQueries == 2    \* calls with the same filter

\* the tags a filter is made of; no file has tag c
QueryTags == { <<"a">>, <<"b">>, <<"c">> }

TagFilters == UNION { [1..n -> QueryTags] : n \in 0..MaxFilter }

\* a view that is open and a filter to ask with
InitQuery ==
    /\ opened = TRUE
    /\ settings \in InitialSettings
    /\ objs = << DefaultState(0) >>
    /\ cur = 1
    /\ reqs = <<>>
    /\ markers = EmptyMap
    /\ surface = {}
    /\ tagsBox = <<>>
    /\ viewport = [center |-> MAP_INIT_CENTER, zoom |-> MAP_INIT_ZOOM]
    /\ events = 0
    /\ \E tags \in TagFilters : bench = [tags |-> tags, results |-> <<>>]

\* this.getFileListByQuery(tags), line 225 alone
Query ==
    /\ Len(bench.results) < MaxQueries
    /\ bench' = [bench EXCEPT
                    !.results = Append(@, getFileListByQuery(bench.tags))]
    /\ UNCHANGED <<opened, settings, objs, cur, reqs, markers, surface,
                   tagsBox, viewport, events>>

SpecQuery == InitQuery /\ [][Query]_vars

-----------------------------------------------------------------------------
(* What the properties speak of *)

\* the version call i carries
Version(i) == objs[reqs[i].obj].version

Pending(i) == reqs[i].status = "pending"

\* call i ends in this step with buildMarkers resolved
Completes(i) == Pending(i) /\ reqs'[i].status \in {"committed", "discarded"}
Commits(i) == Pending(i) /\ reqs'[i].status = "committed"
Discards(i) == Pending(i) /\ reqs'[i].status = "discarded"
Fails(i) == Pending(i) /\ reqs'[i].status = "failed"

AllDone == \A i \in DOMAIN reqs : ~Pending(i)
NoneFailed == \A i \in DOMAIN reqs : reqs[i].status # "failed"

\* a call of the view's own operations
Organic(i) == reqs[i].kind \in {"tags", "zoom", "reset"}

\* the ids of the markers built for a tag filter
MarkerIds(tags) ==
    LET ms == buildMarkers(getFileListByQuery(tags))
    IN { ms[k].id : k \in DOMAIN ms }

-----------------------------------------------------------------------------
(* C1 *)

\* C1: the version of the committed state (this.state.version) never decreases
\* from one step to the next, whatever is requested and in whatever order the
\* computations complete.
C1_MonotonicCommit == [][objs'[cur'].version >= objs[cur].version]_vars

\* a restore has committed over a lower version and a straggler was refused
C1_Witness ==
    /\ objs[cur].version = RESTORE_VERSION
    /\ \E i \in DOMAIN reqs : reqs[i].status = "discarded"
    /\ \E i \in DOMAIN reqs : reqs[i].kind = "zoom" /\ reqs[i].status = "committed"

-----------------------------------------------------------------------------
(* C2 *)

\* the calls carry strictly increasing versions in issue order
IncreasingVersions ==
    \A i, j \in DOMAIN reqs : i < j => Version(i) < Version(j)

C2_FinalIsMax ==
    (AllDone /\ NoneFailed /\ IncreasingVersions /\ Len(reqs) >= 1)
        => /\ cur = reqs[Len(reqs)].obj
           /\ \A i \in DOMAIN reqs : objs[cur].version >= Version(i)

C2_NoLowerAfterHigher ==
    [][\A i \in DOMAIN reqs : Commits(i) =>
          \A j \in DOMAIN reqs :
             reqs[j].status = "committed" => Version(j) <= Version(i)]_vars

\* C2: when calls with pairwise distinct versions v1 < v2 < v3 are issued in
\* that order and all complete successfully, in any order, the committed state
\* is then the candidate with the greatest version; and once a candidate has
\* committed no candidate of a lower version commits afterwards.
C2_HighestVersionWins == []C2_FinalIsMax /\ C2_NoLowerAfterHigher

\* three calls with increasing versions, completed latest first
C2_Witness ==
    /\ Len(reqs) = 3
    /\ AllDone /\ NoneFailed /\ IncreasingVersions
    /\ reqs[1].status = "discarded"
    /\ reqs[2].status = "discarded"
    /\ reqs[3].status = "committed"

-----------------------------------------------------------------------------
(* C3 *)

\* C3: when two calls of the view's own operations are in flight together
\* and both have completed, the committed state and the drawn markers are
\* those of the one issued later. Here j is the later one, the last call
\* issued, and has committed; i is the earlier one and completes now, every
\* other call having ended.
C3_MostRecentWins ==
    [][\A i, j \in DOMAIN reqs :
          ( /\ i < j /\ j = Len(reqs)
            /\ Organic(i) /\ Organic(j)
            /\ reqs[j].status = "committed"
            /\ Completes(i)
            /\ \A k \in DOMAIN reqs : k # i => ~Pending(k) )
          => /\ cur' = reqs[j].obj
             /\ DOMAIN markers' = MarkerIds(objs'[reqs[j].obj].tags)]_vars

-----------------------------------------------------------------------------
(* C4 *)

\* C4: a restore (setState with a state) always wins: when its computation
\* completes successfully its state becomes the committed state, whatever
\* was committed before it or is in flight with it.
C4_RestoreAlwaysWins ==
    [][\A i \in DOMAIN reqs :
          (reqs[i].kind = "restore" /\ Completes(i)) => cur' = reqs[i].obj]_vars

-----------------------------------------------------------------------------
(* C5 *)

\* C5: a completing candidate is discarded exactly when its version is lower
\* than the committed version at that moment (greater or equal commits), and a
\* discard changes nothing: not the committed state, the drawn markers, the
\* tag box or the viewport.
C5_DiscardIffLowerAndNoOp ==
    [][\A i \in DOMAIN reqs :
          Completes(i) =>
            /\ Discards(i) <=> (Version(i) < objs[cur].version)
            /\ Commits(i) <=> (Version(i) >= objs[cur].version)
            /\ Commits(i) => cur' = reqs[i].obj
            /\ Discards(i) =>
                 UNCHANGED <<objs, cur, markers, surface, tagsBox, viewport>>]_vars

\* a candidate of equal version has committed over another one, and a
\* candidate of lower version was discarded while markers were drawn
C5_Witness ==
    /\ \E i, j \in DOMAIN reqs :
          /\ i < j
          /\ reqs[i].status = "committed" /\ reqs[j].status = "committed"
          /\ reqs[i].obj # reqs[j].obj
          /\ Version(i) = Version(j)
    /\ \E i \in DOMAIN reqs : reqs[i].status = "discarded"
    /\ DOMAIN markers # {}

-----------------------------------------------------------------------------
(* C6 *)

\* C6: at every commit that replaces the committed state by another one, the
\* version of the state replaced is strictly lower than the candidate's.
C6_CommitStrictlyHigher ==
    [][\A i \in DOMAIN reqs :
          (Commits(i) /\ reqs[i].obj # cur) => objs[cur].version < Version(i)]_vars

-----------------------------------------------------------------------------
(* C7 *)

\* C7: when buildMarkers rejects for a call, of whatever kind, the committed
\* state and the drawn markers are what they were before the call was issued
\* (no other event having happened in between).
C7_FailSoft ==
    [][\A i \in DOMAIN reqs :
          (Fails(i) /\ reqs[i].pre # None)
          => /\ objs'[cur'] = reqs[i].pre[1].state
             /\ markers' = reqs[i].pre[1].markers]_vars

-----------------------------------------------------------------------------
(* C8 *)

\* C8: no two calls ever carry the same version.
C8_VersionsUnique ==
    \A i, j \in DOMAIN reqs : i # j => Version(i) # Version(j)

-----------------------------------------------------------------------------
(* C9 *)

\* a tag-box edit is handled in this step
TagEditIssued == Len(reqs') = Len(reqs) + 1 /\ reqs'[Len(reqs')].kind = "tags"

\* C9: a tag-box edit issues a candidate whose version is the committed
\* version plus 1 and whose tags are the non-empty comma-separated tokens of
\* the field, and leaves the committed state's tags and version as they are.
C9_TagEditCandidate ==
    [][TagEditIssued =>
          LET o == reqs'[Len(reqs')].obj IN
          /\ objs'[o].version = objs[cur].version + 1
          /\ objs'[o].tags = NonEmpty(Split(tagsBox'))
          /\ objs'[cur'].tags = objs[cur].tags
          /\ objs'[cur'].version = objs[cur].version]_vars

-----------------------------------------------------------------------------
(* C10 *)

\* C10: when another call has been issued and has committed before the
\* initial default computation completes, that completion changes neither the
\* committed state nor the drawn markers.
C10_InitialAlwaysLoses ==
    [][( /\ Len(reqs) >= 1
         /\ reqs[1].kind = "initial" /\ Completes(1)
         /\ \E j \in DOMAIN reqs : j > 1 /\ reqs[j].status = "committed" )
       => /\ cur' = cur
          /\ objs'[cur'] = objs[cur]
          /\ markers' = markers]_vars

-----------------------------------------------------------------------------
(* Who writes the committed state and the drawn markers *)

\* C11: the committed state and the drawn markers change only in the step
\* in which a call commits: every other step (a tag-box edit, zoomend,
\* moveend, Set as Default, Fit, issuing a zoom or a reset) leaves every
\* field of the committed state and the marker map as they were
C11_OnlyCommitWrites ==
    [][(~ \E i \in DOMAIN reqs : Commits(i))
         => /\ objs'[cur'] = objs[cur]
            /\ markers' = markers]_vars

\* C12: once a call has committed, the ids of the drawn markers are the
\* marker ids computed for the tags of the committed state
C12_DrawnMatchesCommittedTags ==
    (\E i \in DOMAIN reqs : reqs[i].status = "committed")
        => DOMAIN markers = MarkerIds(objs[cur].tags)

-----------------------------------------------------------------------------
(* The reconciliation of the drawn markers *)

\* the ids of a marker list
Ids(ms) == { ms[k].id : k \in DOMAIN ms }

\* C14: a marker that is drawn and is in the fresh list, however many times
\* and at whatever coordinate, keeps its entry and its handle: the handle
\* stays on the map and no new handle is made for that id
C14_IdentityPreserved ==
    [][\A A \in DOMAIN markers :
          A \in Ids(bench'.newMarkers)
            => /\ A \in DOMAIN markers'
               /\ markers'[A] = markers[A]
               /\ markers[A].mapMarker \in surface'
               /\ \A k \in DOMAIN bench'.newMarkers :
                     bench'.newMarkers[k].id = A
                       => <<bench'.calls, k>> \notin surface']_vars

\* C15: the returned map has the ids of the fresh list as its keys, and the
\* handles taken off the map are those of the drawn ids missing from the
\* fresh list, each taken off once, and no other
C15_Reconciles ==
    [][LET gone == { markers[k].mapMarker :
                        k \in DOMAIN markers \ Ids(bench'.newMarkers) }
       IN /\ DOMAIN markers' = Ids(bench'.newMarkers)
          /\ DOMAIN bench'.removed = gone
          /\ \A h \in gone : bench'.removed[h] = 1
          /\ surface \ surface' = gone]_vars

\* a call that kept one drawn marker and took the other off the map
C15_Witness ==
    /\ bench # None
    /\ bench.calls = 1
    /\ DOMAIN bench.removed # {}
    /\ \E k \in DOMAIN markers : markers[k].mapMarker[1] = 0

\* C20: the handles on the map are the handles the drawn marker map holds:
\* no handle is on the map without an entry, no entry is without its handle
\* on the map
C20_SurfaceIsDrawn == surface = Handles(markers)

-----------------------------------------------------------------------------
(* The query *)

\* the tags of a document, none for a document without a tags entry
TagsOf(f) ==
    IF FileCacheTags(f) = None THEN {}
    ELSE { FileCacheTags(f)[1][i] : i \in DOMAIN FileCacheTags(f)[1] }

\* where a document stands in the corpus
Place(f) == CHOOSE n \in DOMAIN Files : Files[n] = f

\* C16: getFileListByQuery(tags) returns, in corpus order and each once,
\* the documents that have a tag of the filter, all documents for the empty
\* filter; a call changes no state and calls with the same filter return
\* the same list
C16_QueryResult ==
    /\ [](\A k \in DOMAIN bench.results :
            LET files == bench.results[k]
                wanted == { f \in { Files[n] : n \in DOMAIN Files } :
                              \/ bench.tags = <<>>
                              \/ \E j \in DOMAIN bench.tags :
                                    bench.tags[j] \in TagsOf(f) }
            IN /\ { files[j] : j \in DOMAIN files } = wanted
               /\ \A i, j \in DOMAIN files :
                     i < j => Place(files[i]) < Place(files[j])
               /\ files = bench.results[1])
    /\ [][UNCHANGED <<opened, settings, objs, cur, reqs, markers, surface,
                       tagsBox, viewport, events>>]_vars

\* a filter of two tags, one of them a tag of D1 and the other of no
\* document, asked twice: D1 alone matched
C16_Witness ==
    /\ bench # None
    /\ Len(bench.tags) = 2
    /\ Len(bench.results) = 2
    /\ bench.results[2] = <<"D1">>
    /\ \E j \in DOMAIN bench.tags : bench.tags[j] = <<"c">>

-----------------------------------------------------------------------------
(* Zoom to a location *)

\* zoomToLocation is handled in this step
ZoomIssued ==
    /\ Len(reqs') = Len(reqs) + 1
    /\ reqs'[Len(reqs')].kind = "zoom"

\* C17: the candidate of zoomToLocation has the committed version + 1, the
\* target as center, the configured zoom and the committed tags; and when a
\* zoom candidate commits after an earlier commit, the committed tags and the
\* ids of the drawn markers are what they were just before
C17_ZoomKeepsTags ==
    [][/\ ZoomIssued =>
            LET state == objs'[reqs'[Len(reqs')].obj]
            IN /\ state.version = objs[cur].version + 1
               /\ state.mapCenter \in Locations
               /\ state.mapZoom = settings.zoomOnGoFromNote
               /\ state.tags = objs[cur].tags
       /\ \A i \in DOMAIN reqs :
            (/\ reqs[i].kind = "zoom"
             /\ Commits(i)
             /\ \E j \in DOMAIN reqs : reqs[j].status = "committed")
                => /\ objs'[cur'].tags = objs[cur].tags
                   /\ DOMAIN markers' = DOMAIN markers]_vars

-----------------------------------------------------------------------------
(* A computation without markers *)

\* C18: a call whose version is not lower than the committed one and whose
\* build yields no marker commits all the same: its state becomes the
\* committed one, the marker map becomes empty, no marker handle is left on
\* the map, and the map shows the center and zoom of the candidate, fitted
\* or not
C18_EmptyResultCommits ==
    [][\A i \in DOMAIN reqs :
          (/\ Completes(i)
           /\ buildMarkers(reqs[i].files) = <<>>
           /\ ~(Version(i) < objs[cur].version))
             => /\ Commits(i)
                /\ cur' = reqs[i].obj
                /\ markers' = EmptyMap
                /\ surface' = {}
                /\ viewport' = [center |-> objs[reqs[i].obj].mapCenter,
                                zoom |-> objs[reqs[i].obj].mapZoom]]_vars

-----------------------------------------------------------------------------
(* Every call ends *)

\* call i has reached a terminal outcome
Ended(i) ==
    /\ i \in DOMAIN reqs
    /\ reqs[i].status \in {"committed", "discarded", "failed"}

\* C19: with a Marker Builder that settles every call, every call issued
\* ends as committed, discarded or failed; until then it stays in flight
\* with its computation, whatever is issued or committed meanwhile, and once
\* ended its outcome never changes, so it commits at most once
C19_EveryCallEnds ==
    /\ \A i \in 1..MaxInputs : [](i \in DOMAIN reqs => <>Ended(i))
    /\ [][\A i \in DOMAIN reqs :
             /\ i \in DOMAIN reqs'
             /\ Ended(i) => reqs'[i].status = reqs[i].status
             /\ Pending(i) =>
                   \/ reqs'[i].status = "pending" /\ reqs'[i].files = reqs[i].files
                   \/ Commits(i) \/ Discards(i) \/ Fails(i)]_vars

\* three calls were in flight together and ended one committed, one
\* discarded after it was superseded, one failed
C19_Witness ==
    /\ Len(reqs) >= 3
    /\ AllDone
    /\ \E i, j, k \in DOMAIN reqs :
          /\ reqs[i].status = "committed"
          /\ reqs[j].status = "discarded"
          /\ reqs[k].status = "failed"
          /\ Version(j) < Version(i)
          /\ j < i

=============================================================================
